---- MODULE Spec2Model ----
(***************************************************************************)
(* A model of gopy (src/gopy.go): listing a directory tree with aggregate  *)
(* sizes into a text manifest (List), and copying the directories named by *)
(* a manifest into a destination directory (Copy).                         *)
(*                                                                         *)
(* Strings are sequences of one-character strings, so that the string      *)
(* operations of the program (TrimSpace, Index, LastIndex, slicing,        *)
(* formatting) are computed character by character.  A path of the file    *)
(* system is a sequence of names, each name a non-empty string without     *)
(* "/"; Str and Segs convert between a path and its string.                *)
(***************************************************************************)
EXTENDS Integers, Sequences, FiniteSets, TLC

VARIABLES
    fs,       \* the file system: path -> [kind, data]
    fault,    \* the I/O fault injected into this run: [kind, path]
    handles,  \* the file handles that are open: a set of [path, by]
    pc,       \* the position of the program
    args,     \* the command line flags of the current invocation
    info,     \* List: the listing, [panic, err, result], result a []fileInfo
    paths,    \* readTextFile's result: [panic, result]
    exit,     \* how the process ended: "none", "ok", "exit1", "panic"
    walk,     \* Copy: [dirs, base, stack], the manifest paths left and the walk
    hist      \* history: what the claims compare the outcome with

vars == <<fs, fault, handles, pc, args, info, paths, exit, walk, hist>>

----------------------------------------------------------------------------
(* Bounds of the model *)

MaxEntries == 2     \* codec: entries written to one manifest
MaxPathLen == 1     \* codec: characters of an arbitrary entry path

----------------------------------------------------------------------------
(* Strings *)

\* The element of a one-element set; {e} as a bound set evaluates e once
\* where the value is used many times.
The(S) == CHOOSE x \in S : TRUE

Min(S) == CHOOSE x \in S : \A y \in S : x <= y
Max(S) == CHOOSE x \in S : \A y \in S : x >= y

\* The white space strings.TrimSpace removes, among the characters used here.
Space == {" ", "\n"}

RECURSIVE TrimLeft(_)
TrimLeft(s) ==
    IF s # <<>> /\ Head(s) \in Space THEN TrimLeft(Tail(s)) ELSE s

RECURSIVE TrimRight(_)
TrimRight(s) ==
    IF s # <<>> /\ s[Len(s)] \in Space
    THEN TrimRight(SubSeq(s, 1, Len(s) - 1))
    ELSE s

TrimSpace(s) == TrimRight(TrimLeft(s))

\* The zero-based positions at which sub occurs in s.
Occurrences(s, sub) ==
    {i \in 0..(Len(s) - Len(sub)) : SubSeq(s, i + 1, i + Len(sub)) = sub}

\* strings.Index / strings.LastIndex: -1 when sub does not occur.
Index(s, sub) ==
    IF Occurrences(s, sub) = {} THEN -1 ELSE Min(Occurrences(s, sub))

LastIndex(s, sub) ==
    IF Occurrences(s, sub) = {} THEN -1 ELSE Max(Occurrences(s, sub))

\* s[lo:hi] of Go is defined for 0 <= lo <= hi <= len(s) and panics otherwise.
SliceOK(s, lo, hi) == 0 <= lo /\ lo <= hi /\ hi <= Len(s)
Slice(s, lo, hi) == SubSeq(s, lo + 1, hi)

DigitChar(d) == <<"0", "1", "2", "3", "4", "5", "6", "7", "8", "9">>[d + 1]

RECURSIVE Digits(_)
Digits(n) ==
    IF n < 10 THEN <<DigitChar(n)>>
    ELSE Digits(n \div 10) \o <<DigitChar(n % 10)>>

\* fmt's "%.2f" of float64(size) / float64(1024000): the quotient rounded to
\* two decimals, a tie going to the even digit (the ties among the sizes used
\* here are exact in binary, so the float is rounded as the rational is).
MBDivisor == 1024000

FormatMB(size) ==
    LET q == (size * 100) \div MBDivisor
        r == (size * 100) % MBDivisor
        h == IF 2 * r > MBDivisor THEN q + 1
             ELSE IF 2 * r = MBDivisor THEN q + (q % 2)
             ELSE q
    IN  Digits(h \div 100) \o <<".">>
            \o <<DigitChar((h \div 10) % 10), DigitChar(h % 10)>>

\* The line List prints for one fileInfo: "%s - %.2fMB\n".
ListLine(i) ==
    i.file \o <<" ", "-", " ">> \o FormatMB(i.size) \o <<"M", "B", "\n">>

----------------------------------------------------------------------------
(* Paths *)

Root == <<>>
Parent(p) == SubSeq(p, 1, Len(p) - 1)
IsPrefix(p, q) == Len(p) <= Len(q) /\ SubSeq(q, 1, Len(p)) = p

\* The absolute path string of a path: "/" for the root, "/a/b" for <<a, b>>.
RECURSIVE Str(_)
Str(p) ==
    IF p = <<>> THEN <<"/">>
    ELSE (IF Len(p) = 1 THEN <<>> ELSE Str(Parent(p)))
             \o <<"/">> \o p[Len(p)]

\* The path a string names (the working directory is the root): the string
\* split at "/", empty elements dropped, as filepath.Clean leaves it.
RECURSIVE Segs(_)
Segs(str) ==
    The({IF s = <<>> THEN <<>>
         ELSE LET i == Index(s, <<"/">>)
              IN  IF i = -1 THEN <<s>>
                  ELSE IF i = 0 THEN Segs(Tail(s))
                  ELSE <<SubSeq(s, 1, i)>> \o Segs(SubSeq(s, i + 2, Len(s)))
         : s \in {str}})

\* filepath.Base of a path string: its last element ("/" for the root).
BaseName(s) ==
    IF Segs(s) = <<>> THEN <<"/">> ELSE Segs(s)[Len(Segs(s))]

\* filepath.Join(a, b): the elements of a followed by those of b.
Join(a, b) == Segs(a) \o Segs(b)

----------------------------------------------------------------------------
(* The file system *)

DirEntrySize == 4096    \* the size a directory's own entry reports

NoFault == [kind |-> "none", path |-> Root]

NoWalk == [dirs |-> <<>>, base |-> <<>>, stack |-> <<>>]

Exists(f, p) == p \in DOMAIN f
IsDir(f, p) == Exists(f, p) /\ f[p].kind = "dir"
IsFile(f, p) == Exists(f, p) /\ f[p].kind = "file"

\* os.FileInfo.Size()
Size(f, p) == IF f[p].kind = "dir" THEN DirEntrySize ELSE Len(f[p].data)

\* os.Lstat / os.Stat succeed.
Lstat(f, p) == Exists(f, p) /\ ~(fault.kind = "stat" /\ fault.path = p)

\* A directory can be enumerated (readDirNames, ioutil.ReadDir).
CanRead(f, p) == IsDir(f, p) /\ ~(fault.kind = "read" /\ fault.path = p)

\* An entry can be created in directory p.
CanCreateIn(f, p) == IsDir(f, p) /\ ~(fault.kind = "write" /\ fault.path = p)

\* os.Open succeeds.
CanOpen(f, p) == Exists(f, p) /\ ~(fault.kind = "open" /\ fault.path = p)

Put(f, p, e) == [q \in DOMAIN f \cup {p} |-> IF q = p THEN e ELSE f[q]]

Children(f, p) == {q \in DOMAIN f : Len(q) = Len(p) + 1 /\ IsPrefix(p, q)}

\* The order of names: byte-wise, as sort.Strings orders them.
CharRank(c) ==
    CHOOSE k \in 1..8 : <<"\n", " ", "-", "/", "a", "b", "d", "m">>[k] = c

RECURSIVE NameLess(_, _)
NameLess(a, b) ==
    IF a = <<>> THEN b # <<>>
    ELSE IF b = <<>> THEN FALSE
    ELSE IF Head(a) # Head(b) THEN CharRank(Head(a)) < CharRank(Head(b))
    ELSE NameLess(Tail(a), Tail(b))

\* The paths of S as a sequence sorted by their last name.
RECURSIVE SortByName(_)
SortByName(S) ==
    IF S = {} THEN <<>>
    ELSE LET m == CHOOSE x \in S :
                      \A y \in S \ {x} : NameLess(x[Len(x)], y[Len(y)])
         IN  <<m>> \o SortByName(S \ {m})

\* O_TRUNC in the place of O_APPEND: a file that exists is emptied.
OpenFileTrunc(f, p) ==
    IF IsFile(f, p) THEN [ok |-> TRUE, fs |-> [f EXCEPT ![p].data = <<>>]]
    ELSE IF ~Exists(f, p) /\ p # Root /\ CanCreateIn(f, Parent(p))
    THEN [ok |-> TRUE, fs |-> Put(f, p, [kind |-> "file", data |-> <<>>])]
    ELSE [ok |-> FALSE, fs |-> f]

\* os.OpenFile(path, O_WRONLY|O_CREATE|O_APPEND): the file is created empty
\* when missing, and kept as it is when it exists.
OpenFile(f, p) ==
    IF IsFile(f, p) THEN [ok |-> TRUE, fs |-> f]
    ELSE IF ~Exists(f, p) /\ p # Root /\ CanCreateIn(f, Parent(p))
    THEN [ok |-> TRUE, fs |-> Put(f, p, [kind |-> "file", data |-> <<>>])]
    ELSE [ok |-> FALSE, fs |-> f]

\* A write through an O_APPEND handle goes to the end of the file.
WriteAppend(f, p, s) == [f EXCEPT ![p].data = @ \o s]

----------------------------------------------------------------------------
(* The manifest: List's writing loop and readTextFile *)

\* List, lines 191-194: one line per fileInfo, in the order of the listing.
RECURSIVE FprintfAll(_, _, _)
FprintfAll(f, out, inf) ==
    IF inf = <<>> THEN f
    ELSE FprintfAll(WriteAppend(f, out, ListLine(Head(inf))), out, Tail(inf))

\* List, lines 187-194: the output file is opened (and never closed), then
\* written.  ok is FALSE when the open fails (printErrorAndExit).
ListWrite(f, h, out, inf) ==
    LET o == OpenFile(f, out)
    IN  IF ~o.ok THEN [ok |-> FALSE, fs |-> f, handles |-> h]
        ELSE [ok |-> TRUE,
              fs |-> FprintfAll(o.fs, out, inf),
              handles |-> h \cup {[path |-> out, by |-> "List"]}]

\* bufio.Reader.ReadString('\n'): the text up to and including the first
\* line feed; err when the text ends before one.
ReadString(buf) ==
    LET i == Index(buf, <<"\n">>)
    IN  IF i = -1 THEN [line |-> buf, rest |-> <<>>, err |-> TRUE]
        ELSE [line |-> SubSeq(buf, 1, i + 1),
              rest |-> SubSeq(buf, i + 2, Len(buf)),
              err |-> FALSE]

\* A slip in line 222: the first "-" of the line instead of the last.
EndIdxFirst(trimmedLine) == Index(trimmedLine, <<"-">>) - 1

\* readTextFile, line 222.
EndIdx(trimmedLine) == LastIndex(trimmedLine, <<"-">>) - 1

\* readTextFile, lines 219-225: the loop over the lines.  The slice of line
\* 223 panics when endIdx is negative.
RECURSIVE ReadLines(_, _)
ReadLines(buf, result) ==
    The({LET trimmedLine == TrimSpace(r.line)
             endIdx == EndIdx(trimmedLine)
         IN  IF r.err THEN [panic |-> FALSE, result |-> result]
             ELSE IF ~SliceOK(trimmedLine, 0, endIdx)
             THEN [panic |-> TRUE, result |-> result]
             ELSE ReadLines(r.rest,
                            Append(result, Slice(trimmedLine, 0, endIdx)))
         : r \in {ReadString(buf)}})

\* readTextFile: a file that cannot be opened or read yields no line (the
\* error of os.Open is dropped, the first ReadString fails).
readTextFile(f, inputFile) ==
    IF IsFile(f, inputFile) /\ CanOpen(f, inputFile)
    THEN ReadLines(f[inputFile].data, <<>>)
    ELSE [panic |-> FALSE, result |-> <<>>]

----------------------------------------------------------------------------
(* The manifest codec on arbitrary entries *)

ManifestPath == <<<<"m">>>>

CodecChars == {"a", " ", "-", "\n"}

RECURSIVE StringsUpTo(_)
StringsUpTo(n) ==
    IF n = 0 THEN {<<>>}
    ELSE LET S == StringsUpTo(n - 1)
         IN  S \cup {Append(s, c) : s \in S, c \in CodecChars}

\* Longer strings worth a case: with the separator " - ", with a "-" or a
\* space at either end, with a line feed inside.
CodecExtra ==
    {<<"a", " ", "-", " ", "a">>, <<"a", " ", "-", " ">>, <<" ", "-", " ">>,
     <<"-", " ">>, <<" ", "-">>, <<"a", "-", "a">>, <<"a", "\n", "a">>}

\* The absolute paths (as filepath.Abs returns them): "/" followed by up to
\* MaxPathLen characters, or by one of the longer strings.
CodecPaths ==
    {<<"/">> \o s : s \in StringsUpTo(MaxPathLen) \cup CodecExtra}

CodecSizes == {0, 1536000}

CodecEntries == [file : CodecPaths, size : CodecSizes]

RECURSIVE SeqsUpTo(_, _)
SeqsUpTo(S, n) ==
    IF n = 0 THEN {<<>>}
    ELSE LET T == SeqsUpTo(S, n - 1)
         IN  T \cup {Append(t, x) : t \in T, x \in S}

InitCodec ==
    /\ fs = (Root :> [kind |-> "dir", data |-> <<>>])
    /\ fault = NoFault
    /\ handles = {}
    /\ pc = "write"
    /\ args = [output |-> ManifestPath]
    /\ \E es \in SeqsUpTo(CodecEntries, MaxEntries) :
           info = [panic |-> FALSE, err |-> FALSE, result |-> es]
    /\ paths = [panic |-> FALSE, result |-> <<>>]
    /\ exit = "none"
    /\ walk = NoWalk
    /\ hist = <<>>

CodecWrite ==
    /\ pc = "write"
    /\ LET w == ListWrite(fs, handles, args.output, info.result)
       IN  /\ fs' = w.fs
           /\ handles' = w.handles
    /\ pc' = "read"
    /\ UNCHANGED <<fault, args, info, paths, exit, hist, walk>>

CodecRead ==
    /\ pc = "read"
    /\ paths' = readTextFile(fs, args.output)
    /\ exit' = IF paths'.panic THEN "panic" ELSE "ok"
    /\ pc' = "done"
    /\ UNCHANGED <<fs, fault, handles, args, info, hist, walk>>

NextCodec == CodecWrite \/ CodecRead

SpecCodec == InitCodec /\ [][NextCodec]_vars

\* No path of the listing holds the separator " - ".
NoSeparatorInPaths ==
    \A i \in 1..Len(info.result) :
        Occurrences(info.result[i].file, <<" ", "-", " ">>) = {}

\* No path of the listing holds a line feed.
NoLineFeedInPaths ==
    \A i \in 1..Len(info.result) :
        Occurrences(info.result[i].file, <<"\n">>) = {}

\* readTextFile returned the paths that were written, in their order.
RoundTrip ==
    /\ ~paths.panic
    /\ Len(paths.result) = Len(info.result)
    /\ \A i \in 1..Len(info.result) : paths.result[i] = info.result[i].file

\* C1 as claimed: entries whose paths hold no " - ", written to an empty
\* manifest in List's line format and parsed by readTextFile, come back as
\* exactly their paths, in order.
C1_RoundTripAsClaimed ==
    (pc = "done" /\ NoSeparatorInPaths) => RoundTrip

\* C1, amended: the same for entries whose absolute paths hold neither " - "
\* nor a line feed.
C1_RoundTrip ==
    (pc = "done" /\ NoSeparatorInPaths /\ NoLineFeedInPaths) => RoundTrip

\* Two different entries, one with a "-" and a space inside its path, have
\* been written and read back.
C1_Witness ==
    /\ pc = "done"
    /\ NoSeparatorInPaths /\ NoLineFeedInPaths
    /\ Len(info.result) >= 2
    /\ info.result[1].file # info.result[2].file
    /\ \E i \in 1..Len(info.result) : info.result[i].file = <<"/", "-", " ">>
    /\ paths.result = [i \in 1..Len(info.result) |-> info.result[i].file]

----------------------------------------------------------------------------
(* filepath.Walk, getSize and the two listings *)

\* filepath.Walk(root, fn) for a callback that returns nil: the calls of fn
\* in their order, each with the path and whether info is non-nil.  Walk
\* reads the names of a directory (sorted), calls fn for the directory, then
\* lstats and walks each name; a directory that cannot be read gets its one
\* call and is not entered; a name that cannot be lstat-ed gets a call with
\* a nil info.
RECURSIVE WalkDir(_, _)
RECURSIVE WalkNames(_, _)

\* A walk that calls fn for the names of a directory without entering them.
WalkDirOneLevel(f, p) ==
    IF IsDir(f, p) /\ CanRead(f, p)
    THEN <<[path |-> p, info |-> TRUE]>>
             \o [i \in 1..Cardinality(Children(f, p)) |->
                    [path |-> SortByName(Children(f, p))[i],
                     info |-> Lstat(f, SortByName(Children(f, p))[i])]]
    ELSE <<[path |-> p, info |-> TRUE]>>

WalkDir(f, p) ==
    IF IsDir(f, p) /\ CanRead(f, p)
    THEN <<[path |-> p, info |-> TRUE]>>
             \o WalkNames(f, SortByName(Children(f, p)))
    ELSE <<[path |-> p, info |-> TRUE]>>

WalkNames(f, names) ==
    IF names = <<>> THEN <<>>
    ELSE (IF Lstat(f, Head(names)) THEN WalkDir(f, Head(names))
          ELSE <<[path |-> Head(names), info |-> FALSE]>>)
             \o WalkNames(f, Tail(names))

Walk(f, root) ==
    IF Lstat(f, root) THEN WalkDir(f, root)
    ELSE <<[path |-> root, info |-> FALSE]>>

\* A callback that adds the sizes of the files only.
RECURSIVE SumFileSizes(_, _, _)
SumFileSizes(f, calls, size) ==
    IF calls = <<>> THEN [panic |-> FALSE, size |-> size]
    ELSE IF ~Head(calls).info THEN [panic |-> TRUE, size |-> size]
    ELSE SumFileSizes(f, Tail(calls),
             size + Len(f[Head(calls).path].data))

\* getSize's callback (line 44) over the calls: info.Size() is added; a nil
\* info makes info.Size() panic.
RECURSIVE SumSizes(_, _, _)
SumSizes(f, calls, size) ==
    IF calls = <<>> THEN [panic |-> FALSE, size |-> size]
    ELSE IF ~Head(calls).info THEN [panic |-> TRUE, size |-> size]
    ELSE SumSizes(f, Tail(calls), size + Size(f, Head(calls).path))

\* getSize, lines 40-48.
getSize(f, dir) == SumSizes(f, Walk(f, dir), 0)

\* The filter with the two flags taken one for the other.
RetainedSwapped(f, p, noFile, noDir) ==
    (IsDir(f, p) /\ ~noFile) \/ (~IsDir(f, p) /\ ~noDir)

\* The filter of lines 56 and 70.
Retained(f, p, noFile, noDir) ==
    (IsDir(f, p) /\ ~noDir) \/ (~IsDir(f, p) /\ ~noFile)

\* ioutil.ReadDir succeeds: the directory is read and every entry lstat-ed.
ReadDirOK(f, dir) ==
    CanRead(f, dir) /\ \A c \in Children(f, dir) : Lstat(f, c)

\* listFiles, lines 55-61: the loop over the entries ReadDir returned.
RECURSIVE ListLoop(_, _, _, _, _)
ListLoop(f, entries, noFile, noDir, result) ==
    IF entries = <<>> THEN [panic |-> FALSE, err |-> FALSE, result |-> result]
    ELSE LET p == Head(entries)
             g == getSize(f, p)
         IN  IF ~Retained(f, p, noFile, noDir)
             THEN ListLoop(f, Tail(entries), noFile, noDir, result)
             ELSE IF g.panic
             THEN [panic |-> TRUE, err |-> FALSE, result |-> result]
             ELSE ListLoop(f, Tail(entries), noFile, noDir,
                      Append(result, [file |-> Str(p), size |-> g.size]))

\* listFiles, lines 50-64.
listFiles(f, dir, noFile, noDir) ==
    IF ~ReadDirOK(f, dir)
    THEN [panic |-> FALSE, err |-> TRUE, result |-> <<>>]
    ELSE ListLoop(f, SortByName(Children(f, dir)), noFile, noDir, <<>>)

\* listFilesRecursively, lines 69-76: the callback over the calls of Walk;
\* a nil info makes info.IsDir() panic.
RECURSIVE WalkLoop(_, _, _, _, _)
WalkLoop(f, calls, noFile, noDir, result) ==
    IF calls = <<>> THEN [panic |-> FALSE, err |-> FALSE, result |-> result]
    ELSE LET c == Head(calls)
             g == getSize(f, c.path)
         IN  IF ~c.info
             THEN [panic |-> TRUE, err |-> FALSE, result |-> result]
             ELSE IF ~Retained(f, c.path, noFile, noDir)
             THEN WalkLoop(f, Tail(calls), noFile, noDir, result)
             ELSE IF g.panic
             THEN [panic |-> TRUE, err |-> FALSE, result |-> result]
             ELSE WalkLoop(f, Tail(calls), noFile, noDir,
                      Append(result, [file |-> Str(c.path), size |-> g.size]))

\* listFilesRecursively, lines 66-81: the callback returns nil, so Walk does.
listFilesRecursively(f, dir, noFile, noDir) ==
    WalkLoop(f, Walk(f, dir), noFile, noDir, <<>>)

\* isDirectory, lines 102-115: the handle it opens is never closed.
isDirectory(f, h, path) ==
    IF ~CanOpen(f, path) THEN [dir |-> FALSE, handles |-> h]
    ELSE [dir |-> IsDir(f, path),
          handles |-> h \cup {[path |-> path, by |-> "isDirectory"]}]

\* List, lines 176-195.
List(f, h, a) ==
    LET l == IF a.recursive
             THEN listFilesRecursively(f, a.directory, a.noFile, a.noDir)
             ELSE listFiles(f, a.directory, a.noFile, a.noDir)
        w == ListWrite(f, h, a.output, l.result)
    IN  IF l.panic
        THEN [exit |-> "panic", info |-> l, fs |-> f, handles |-> h]
        ELSE IF l.err
        THEN [exit |-> "exit1", info |-> l, fs |-> f, handles |-> h]
        ELSE IF ~w.ok
        THEN [exit |-> "exit1", info |-> l, fs |-> f, handles |-> h]
        ELSE [exit |-> "ok", info |-> l, fs |-> w.fs, handles |-> w.handles]

----------------------------------------------------------------------------
(* Trees *)

MaxNodes == 3       \* entries of the initial tree, below the root
MaxRuns == 2        \* invocations of List in one behaviour

Names == {<<"a">>, <<"a", "b">>}

\* The prefix-closed sets of at most n paths.
RECURSIVE TreeShapes(_)
TreeShapes(n) ==
    IF n = 0 THEN {{}}
    ELSE LET T == TreeShapes(n - 1)
         IN  T \cup UNION {{t \cup {Append(q, x)} :
                               q \in t \cup {Root}, x \in Names} : t \in T}

Leaves(t) == {q \in t : ~\E r \in t : r # q /\ IsPrefix(q, r)}

\* A file holds the characters of its own name.
FileData(q) == q[Len(q)]

\* The file system with the entries t, those of files being files.
MkFs(t, files) ==
    [q \in t \cup {Root} |->
        IF q \in files THEN [kind |-> "file", data |-> FileData(q)]
        ELSE [kind |-> "dir", data |-> <<>>]]

Trees ==
    UNION {{MkFs(t, files) : files \in SUBSET Leaves(t)} :
              t \in TreeShapes(MaxNodes)}

\* The faults a run of List can meet: an entry that cannot be lstat-ed, a
\* directory that cannot be read or opened, a root in which nothing can be
\* created.
ListFaults(f) ==
    {NoFault}
        \cup {[kind |-> "stat", path |-> q] : q \in DOMAIN f \ {Root}}
        \cup {[kind |-> "read", path |-> q] : q \in {r \in DOMAIN f : IsDir(f, r)}}
        \cup {[kind |-> k, path |-> Root] : k \in {"open", "write"}}

\* Another output path, whose parent may be missing or a file.
OtherOutput == <<<<"a">>, <<"m">>>>

\* What the manifest may hold before the first invocation.
OldManifest == <<"o", "l", "d", "\n">>

----------------------------------------------------------------------------
(* List as a program: init, then main *)

NoListing == [panic |-> FALSE, err |-> FALSE, result |-> <<>>]

\* A tree with one thing out of the ordinary at most: a fault, a manifest that
\* exists already, or the output path /a/m.
ListSetups(t) ==
    {[fs |-> t, fault |-> fl, output |-> ManifestPath] : fl \in ListFaults(t)}
        \cup {[fs |-> Put(t, ManifestPath,
                          [kind |-> "file", data |-> OldManifest]),
               fault |-> NoFault, output |-> ManifestPath],
              [fs |-> t, fault |-> NoFault, output |-> OtherOutput]}

\* The flags are those of every invocation of the behaviour; the directory
\* is the root or an entry of it.
InitList ==
    /\ \E t \in Trees : \E s \in ListSetups(t) :
           /\ fs = s.fs
           /\ fault = s.fault
           /\ \E d \in {q \in DOMAIN s.fs \ {s.output} : Len(q) <= 1} :
              \E nf \in BOOLEAN, nd \in BOOLEAN, r \in BOOLEAN :
                  args = [directory |-> d, output |-> s.output,
                          noFile |-> nf, noDir |-> nd, recursive |-> r]
    /\ handles = {}
    /\ pc = "init"
    /\ info = NoListing
    /\ paths = [panic |-> FALSE, result |-> <<>>]
    /\ exit = "none"
    /\ walk = NoWalk
    /\ hist = [runs |-> 0, first |-> fs, pre |-> fs, written |-> <<>>]

\* A new process: init (lines 166-173) checks the directory.
ListInit ==
    /\ pc \in {"init", "exited", "returned"}
    /\ hist.runs < MaxRuns
    /\ LET c == isDirectory(fs, {}, args.directory)
       IN  /\ handles' = c.handles
           /\ pc' = IF c.dir THEN "main" ELSE "exited"
           /\ exit' = IF c.dir THEN "none" ELSE "exit1"
    /\ info' = NoListing
    /\ hist' = [hist EXCEPT !.runs = @ + 1, !.pre = fs]
    /\ UNCHANGED <<fs, fault, args, paths, walk>>

\* main, lines 247-248.
ListMain ==
    /\ pc = "main"
    /\ LET l == List(fs, handles, args)
       IN  /\ fs' = l.fs
           /\ handles' = l.handles
           /\ info' = l.info
           /\ exit' = l.exit
           /\ hist' = IF l.exit = "ok"
                      THEN [hist EXCEPT !.written = Append(@, l.info.result)]
                      ELSE hist
    /\ pc' = "returned"
    /\ UNCHANGED <<fault, args, paths, walk>>

NextList == ListInit \/ ListMain

SpecList == InitList /\ [][NextList]_vars

----------------------------------------------------------------------------
(* Claims about List *)

\* d and everything below it.
Below(f, d) == {q \in DOMAIN f : IsPrefix(d, q)}

\* What the walk from d can reach: d, and the entries below it whose
\* ancestors from d on can all be read.
Reach(f, d) ==
    {q \in Below(f, d) :
        \A r \in Below(f, d) : (IsPrefix(r, q) /\ r # q) => CanRead(f, r)}

\* No entry from d on fails to be lstat-ed or read.
ListingFaultFree(d) ==
    ~(fault.kind \in {"stat", "read"} /\ IsPrefix(d, fault.path))

\* The entries the listing of this invocation enumerates.
Enumerated ==
    IF args.recursive THEN Reach(hist.pre, args.directory)
    ELSE Children(hist.pre, args.directory)

Listed == {info.result[i].file : i \in 1..Len(info.result)}

\* C3: in both listings an enumerated entry is in the result exactly when it
\* is a directory and directories are included, or is no directory and files
\* are included; with both excluded the result is empty and no error is
\* reported.
C3_Filter ==
    /\ (pc = "returned" /\ ~info.panic /\ ~info.err) =>
           \A q \in Enumerated :
               Str(q) \in Listed <=>
                   \/ hist.pre[q].kind = "dir" /\ ~args.noDir
                   \/ hist.pre[q].kind # "dir" /\ ~args.noFile
    /\ (pc = "returned" /\ args.noFile /\ args.noDir
            /\ ListingFaultFree(args.directory)) =>
           info = NoListing

\* A listing of a directory with a file and a subdirectory in it has
\* returned the one and left out the other.
C3_Witness ==
    /\ pc = "returned" /\ exit = "ok"
    /\ args.noFile # args.noDir
    /\ \E q \in Enumerated : Str(q) \in Listed
    /\ \E q \in Enumerated : Str(q) \notin Listed
    /\ \E q \in Enumerated : hist.pre[q].kind = "file"

\* C4: with files and directories included, the non-recursive listing of D
\* has one entry for each child of D and no other; the recursive listing has
\* one entry for D and one for each descendant of D.
C4_Exact ==
    (pc = "returned" /\ ~args.noFile /\ ~args.noDir
         /\ ListingFaultFree(args.directory)) =>
        /\ ~info.panic /\ ~info.err
        /\ Listed = {Str(q) : q \in IF args.recursive
                                    THEN Below(hist.pre, args.directory)
                                    ELSE Children(hist.pre, args.directory)}
        /\ Len(info.result) = Cardinality(Listed)

\* Listings of a directory with a child that has a child of its own: the
\* non-recursive one, and the recursive one.
C4_Witness ==
    /\ pc = "returned" /\ exit = "ok"
    /\ ~args.noFile /\ ~args.noDir /\ ~args.recursive
    /\ ListingFaultFree(args.directory)
    /\ Children(hist.pre, args.directory) # {}
    /\ Below(hist.pre, args.directory)
           # Children(hist.pre, args.directory) \cup {args.directory}

\* The sum of getSize over the entries S.
RECURSIVE SumGetSize(_)
SumGetSize(S) ==
    IF S = {} THEN 0
    ELSE LET x == CHOOSE y \in S : TRUE
         IN  getSize(fs, x).size + SumGetSize(S \ {x})

\* C5: getSize of a file is its length; getSize of a directory is its own
\* entry size plus the sum of getSize over its children.
C5_SizeRecursion ==
    \A q \in DOMAIN fs :
        ListingFaultFree(q) =>
            /\ ~getSize(fs, q).panic
            /\ getSize(fs, q).size =
                   IF fs[q].kind = "file" THEN Len(fs[q].data)
                   ELSE DirEntrySize + SumGetSize(Children(fs, q))

\* A listing holds a directory whose size is more than two entry sizes (it
\* has a directory below it, and a file), and a file.
C5_Witness ==
    /\ pc = "returned" /\ exit = "ok"
    /\ fault = NoFault
    /\ \E i \in 1..Len(info.result) :
           /\ info.result[i].size > 2 * DirEntrySize
           /\ info.result[i].size % DirEntrySize # 0
    /\ \E i \in 1..Len(info.result) :
           /\ info.result[i].size > 0
           /\ info.result[i].size < DirEntrySize

\* The lines of the listings, one listing after the other.
RECURSIVE Lines(_)
Lines(listings) ==
    IF listings = <<>> THEN <<>>
    ELSE LET l == Head(listings)
         IN  (IF l = <<>> THEN Lines(Tail(listings))
              ELSE ListLine(Head(l)) \o Lines(<<Tail(l)>> \o Tail(listings)))

\* What the manifest held before the first invocation.
ManifestBefore ==
    IF IsFile(hist.first, args.output) THEN hist.first[args.output].data
    ELSE <<>>

\* C6: after any sequence of invocations of List with one output path, the
\* manifest is what it was before the first, followed by the lines of each
\* successful invocation in order; nothing that was in it is removed or
\* rewritten.
C6_Append ==
    /\ IsFile(fs, args.output) =>
           fs[args.output].data = ManifestBefore \o Lines(hist.written)
    /\ hist.written # <<>> => IsFile(fs, args.output)

\* Two invocations have each added lines to a manifest that was not empty.
C6_Witness ==
    /\ pc = "returned"
    /\ ManifestBefore # <<>>
    /\ Len(hist.written) = 2
    /\ hist.written[1] # <<>> /\ hist.written[2] # <<>>
    /\ hist.written[1] # hist.written[2]

\* The injected fault is on an entry below the listed directory.
DescendantFault ==
    /\ fault.kind \in {"stat", "read"}
    /\ IsPrefix(args.directory, fault.path)
    /\ fault.path # args.directory

\* C7 as claimed: an entry below the directory that cannot be lstat-ed, or a
\* subdirectory that cannot be read, does not abort or crash the recursive
\* listing: List completes, and the result holds nothing but entries.
C7_PerEntryErrorsSwallowed ==
    (pc = "returned" /\ args.recursive /\ DescendantFault) =>
        /\ exit = "ok"
        /\ Listed \subseteq {Str(q) : q \in Below(hist.pre, args.directory)}

\* C9 as claimed: when init and List are through, no handle is open.
C9_HandlesClosed ==
    pc = "returned" => handles = {}

----------------------------------------------------------------------------
(* Copy *)

MaxDepth == 6       \* names in a path Copy may create
MaxDirs == 2        \* paths in the manifest Copy reads

Dir == [kind |-> "dir", data |-> <<>>]

\* os.MkdirAll: the missing directories of the path are made from the top
\* down; it fails at a name that is a file, or that cannot be created, and
\* keeps what it has made.
RECURSIVE MkdirAll(_, _)
MkdirAll(f, p) ==
    IF IsDir(f, p) THEN [ok |-> TRUE, fs |-> f]
    ELSE IF Exists(f, p) THEN [ok |-> FALSE, fs |-> f]
    ELSE LET r == MkdirAll(f, Parent(p))
         IN  IF ~r.ok THEN r
             ELSE IF CanCreateIn(r.fs, Parent(p))
             THEN [ok |-> TRUE, fs |-> Put(r.fs, p, Dir)]
             ELSE [ok |-> FALSE, fs |-> r.fs]

\* os.Create: O_RDWR|O_CREATE|O_TRUNC, a file that exists is emptied.
Create(f, p) ==
    IF IsFile(f, p) THEN [ok |-> TRUE, fs |-> [f EXCEPT ![p].data = <<>>]]
    ELSE IF ~Exists(f, p) /\ p # Root /\ CanCreateIn(f, Parent(p))
    THEN [ok |-> TRUE, fs |-> Put(f, p, [kind |-> "file", data |-> <<>>])]
    ELSE [ok |-> FALSE, fs |-> f]

\* copyFile, lines 197-212: both handles are closed by the deferred calls on
\* every return; io.Copy reads the source as it is after the destination
\* was created.
copyFile(f, h, src, dest) ==
    LET hs == [path |-> src, by |-> "copyFile.src"]
        hd == [path |-> dest, by |-> "copyFile.dest"]
        c == Create(f, dest)
    IN  IF ~CanOpen(f, src) THEN [fs |-> f, handles |-> h]
        ELSE IF ~c.ok THEN [fs |-> f, handles |-> (h \cup {hs}) \ {hs}]
        ELSE [fs |-> [c.fs EXCEPT ![dest].data = c.fs[src].data],
              handles |-> (h \cup {hs, hd}) \ {hs, hd}]

\* fileExists, lines 117-123: the handle it opens is never closed.
fileExists(f, h, path) ==
    IF ~CanOpen(f, path) THEN [exists |-> FALSE, handles |-> h]
    ELSE [exists |-> TRUE,
          handles |-> h \cup {[path |-> path, by |-> "fileExists"]}]

\* Copy's callback, line 235: the destination of a walked path, from the
\* first occurrence of baseDir in the path string.  The slice panics when
\* there is none.
CopyDest(directoryPath, baseDir, path) ==
    LET i == Index(path, baseDir)
    IN  IF i = -1 THEN [panic |-> TRUE, dest |-> Root]
        ELSE [panic |-> FALSE,
              dest |-> Join(directoryPath, Slice(path, i, Len(path)))]

\* The frames of the walk with the empty ones on top removed.
RECURSIVE Unwind(_)
Unwind(stack) ==
    IF stack # <<>> /\ stack[Len(stack)] = <<>>
    THEN Unwind(SubSeq(stack, 1, Len(stack) - 1))
    ELSE stack

\* The faults a run of Copy can meet.
CopyFaults(f) ==
    {NoFault}
        \cup {[kind |-> "stat", path |-> q] : q \in DOMAIN f \ {Root}}
        \cup {[kind |-> "read", path |-> q] :
                 q \in {r \in DOMAIN f \ {Root} : IsDir(f, r)}}
        \cup {[kind |-> "open", path |-> q] :
                 q \in {r \in DOMAIN f : IsFile(f, r)}}
        \cup {[kind |-> "write", path |-> Root]}

NewDest == <<<<"d">>>>

\* The destinations: the new directory /d, the root, an entry of the root,
\* and /a/d.
Dests(f) ==
    {NewDest, Root, <<<<"a">>, <<"d">>>>} \cup {q \in DOMAIN f : Len(q) = 1}

\* The manifest List writes for the paths srcs of f.
RECURSIVE ManifestOf(_, _)
ManifestOf(f, srcs) ==
    IF srcs = <<>> THEN <<>>
    ELSE ListLine([file |-> Str(Head(srcs)),
                   size |-> getSize(f, Head(srcs)).size])
             \o ManifestOf(f, Tail(srcs))

\* A tree, a manifest of paths of the tree, and a destination; a fault only
\* with the new destination /d.
CopySetups(t) ==
    {[fs |-> t, fault |-> NoFault, srcs |-> ss, dest |-> d] :
         ss \in SeqsUpTo(DOMAIN t, MaxDirs), d \in Dests(t)}
        \cup {[fs |-> t, fault |-> fl, srcs |-> ss, dest |-> NewDest] :
                 ss \in SeqsUpTo(DOMAIN t \ {Root}, 1), fl \in CopyFaults(t)}

InitCopy ==
    /\ \E t \in Trees : \E s \in CopySetups(t) :
           /\ fault = s.fault
           /\ fs = Put(s.fs, ManifestPath,
                       [kind |-> "file", data |-> ManifestOf(s.fs, s.srcs)])
           /\ args = [directory |-> s.dest, input |-> ManifestPath]
    /\ handles = {}
    /\ pc = "init"
    /\ info = NoListing
    /\ paths = [panic |-> FALSE, result |-> <<>>]
    /\ exit = "none"
    /\ walk = NoWalk
    /\ hist = [first |-> fs, rootFailed |-> FALSE]

\* init, lines 159-165.
CopyInit ==
    /\ pc = "init"
    /\ LET c == fileExists(fs, handles, args.input)
       IN  /\ handles' = c.handles
           /\ pc' = IF c.exists THEN "start" ELSE "exited"
           /\ exit' = IF c.exists THEN "none" ELSE "exit1"
    /\ UNCHANGED <<fs, fault, args, info, paths, walk, hist>>

\* Copy, lines 230-231: the destination root is made (the error of
\* MkdirAll is dropped) and the manifest read.
CopyStart ==
    /\ pc = "start"
    /\ \E m \in {MkdirAll(fs, args.directory)} :
       \E r \in {readTextFile(m.fs, args.input)} :
           /\ fs' = m.fs
           /\ paths' = r
           /\ hist' = [hist EXCEPT !.rootFailed = ~m.ok]
           /\ walk' = [dirs |-> r.result, base |-> <<>>, stack |-> <<>>]
           /\ pc' = IF r.panic THEN "exited" ELSE "walk"
           /\ exit' = IF r.panic THEN "panic" ELSE "none"
    /\ UNCHANGED <<fault, handles, args, info>>

\* Copy, lines 231-233: the next path of the manifest; Walk is to lstat it.
CopyWalk ==
    /\ pc = "walk"
    /\ walk.stack = <<>>
    /\ walk.dirs # <<>>
    /\ walk' = [dirs |-> Tail(walk.dirs),
                base |-> BaseName(Head(walk.dirs)),
                stack |-> <<<<Segs(Head(walk.dirs))>>>>]
    /\ UNCHANGED <<fs, fault, handles, pc, args, info, paths, exit, hist>>

\* One step of filepath.Walk with Copy's callback (lines 234-241): the next
\* name is lstat-ed; a directory has its names read, then the callback makes
\* its destination, then its names are walked; a file is copied.  A name that
\* cannot be lstat-ed reaches the callback with a nil info, and info.IsDir()
\* panics.
CopyVisit ==
    /\ pc = "walk"
    /\ walk.stack # <<>>
    /\ \E p \in {Head(walk.stack[Len(walk.stack)])} :
       \E d \in {CopyDest(Str(args.directory), walk.base, Str(p))} :
       LET below == [walk.stack EXCEPT ![Len(walk.stack)] = Tail(@)]
           names == IF CanRead(fs, p) THEN SortByName(Children(fs, p))
                    ELSE <<>>
           c == copyFile(fs, handles, p, d.dest)
       IN  /\ Len(d.dest) <= MaxDepth
           /\ IF d.panic \/ ~Lstat(fs, p)
              THEN /\ pc' = "exited"
                   /\ exit' = "panic"
                   /\ UNCHANGED <<fs, handles, walk>>
              ELSE /\ IF IsDir(fs, p)
                      THEN /\ fs' = MkdirAll(fs, d.dest).fs
                           /\ handles' = handles
                           /\ walk' = [walk EXCEPT
                                  !.stack = Unwind(Append(below, names))]
                      ELSE /\ fs' = c.fs
                           /\ handles' = c.handles
                           /\ walk' = [walk EXCEPT !.stack = Unwind(below)]
                   /\ UNCHANGED <<pc, exit>>
    /\ UNCHANGED <<fault, args, info, paths, hist>>

\* Copy, line 244, and main: every path of the manifest has been walked.
CopyReturn ==
    /\ pc = "walk"
    /\ walk.stack = <<>>
    /\ walk.dirs = <<>>
    /\ pc' = "returned"
    /\ exit' = "ok"
    /\ UNCHANGED <<fs, fault, handles, args, info, paths, walk, hist>>

NextCopy == CopyInit \/ CopyStart \/ CopyWalk \/ CopyVisit \/ CopyReturn

SpecCopy == InitCopy /\ [][NextCopy]_vars

\* Copy runs in one thread: a step that can be taken is taken.
LiveCopy == SpecCopy /\ WF_vars(NextCopy)

----------------------------------------------------------------------------
(* Claims about Copy *)

\* The one source directory of the manifest read, and its base name.
SrcDir == Segs(paths.result[1])

\* The path of q, an entry of the subtree of src, under dest/<baseName(src)>.
Mirror(src, q) ==
    args.directory \o <<src[Len(src)]>> \o SubSeq(q, Len(src) + 1, Len(q))

\* No directory along the path of src bears the name of src.
NoSharedName(src) == \A i \in 1..(Len(src) - 1) : src[i] # src[Len(src)]

\* A run of Copy on the manifest of one source directory, fault free, into a
\* destination that did not exist and that MkdirAll has made.
OneSourceCopy ==
    /\ fault = NoFault
    /\ ~hist.rootFailed
    /\ paths.result # <<>> /\ Len(paths.result) = 1
    /\ SrcDir # Root /\ IsDir(hist.first, SrcDir)
    /\ ~Exists(hist.first, args.directory)
    /\ NoSharedName(SrcDir)

\* The subtree of src is found under dest/<baseName(src)>.
Reproduced(src) ==
    \A q \in {r \in DOMAIN hist.first : IsPrefix(src, r)} :
        /\ Exists(fs, Mirror(src, q))
        /\ fs[Mirror(src, q)].kind = hist.first[q].kind
        /\ IsFile(hist.first, q) => fs[Mirror(src, q)].data = hist.first[q].data

\* C2: when Copy has returned from the copy of one source directory no
\* directory along whose path bears its name, every file of its subtree is
\* under dest/<baseName(srcDir)>/ at the same relative path with the same
\* bytes, and every subdirectory at the same relative path.
C2_CopyReproduces ==
    (pc = "returned" /\ OneSourceCopy) => Reproduced(SrcDir)

\* C8: when Copy could not create its destination root, it does not end
\* with the exit status of success.
C8_RootErrorFatal == hist.rootFailed => exit # "ok"

====
